---------------------------- MODULE Spec2Model ----------------------------
(***************************************************************************)
(* Model of the stamp-maker application (cactus-bm/stamp-maker).           *)
(*                                                                         *)
(* The application state is the React AppState record of App.tsx; it is    *)
(* held here in four variables, one per top-level key (image, lines, ui,   *)
(* export), because updateAppState merges shallowly: an update replaces    *)
(* whole top-level keys.  Handlers are closures over the appState of the   *)
(* render in which they were created; a synchronous handler therefore      *)
(* reads the current state, while the onload / onerror callbacks of an     *)
(* image load read the ui record captured when the load was started.       *)
(*                                                                         *)
(* Nullable fields are options: <<>> is null and <<v>> is the value v.     *)
(* Pixel buffers are kept in pixel units: data is a sequence of RGBA       *)
(* records, four bytes each.                                               *)
(***************************************************************************)
EXTENDS Integers, Sequences, FiniteSets, TLC

VARIABLES
    image,      \* appState.image: original, processed, file, dimensions
    lines,      \* appState.lines: the seven reference lines and letterLines
    ui,         \* appState.ui: currentTool, loading, error
    export,     \* appState.export: name, ready
    canvas,     \* pixel content of the element with id main-canvas
    pending,    \* image loads started whose onload / onerror has not run
    last,       \* the handler that ran last, its arguments and its outcome
    steps,      \* number of handler invocations so far
    budget,     \* number of handler invocations the specification explores
    download,   \* the stamp data of the last file handed to the browser as a download
    src,        \* transform specification: the source buffer
    tgt,        \* transform specification: the target colour
    out         \* transform specification: the result buffer, once computed

vars == <<image, lines, ui, export, canvas, pending, last, steps, budget, download, src, tgt, out>>

appVars == <<image, lines, ui, export, canvas, pending, last, steps, budget, download>>
xfVars == <<src, tgt, out>>

-----------------------------------------------------------------------------
(* Bounds of the model *)

\* longest pixel sequence of a source buffer in the transform specification
MaxPixels == 2
\* handler invocations explored from the initial state
MaxSteps == 5
\* handler invocations explored from the export-ready state
MaxReadySteps == 3
\* image loads in flight at once
MaxPending == 1
\* longest letterLines list
MaxLetters == 2
\* applications of the transform to one source in the transform specification
MaxApply == 2
\* handler invocations explored from the state with one letter line
MaxLetterSteps == 3
\* handler invocations explored from the state with a processed image
MaxProcessedSteps == 3

-----------------------------------------------------------------------------
(* Options and small helpers *)

Null == <<>>
Some(v) == <<v>>
IsNull(o) == o = <<>>
Val(o) == o[1]

Min(a, b) == IF a < b THEN a ELSE b
Max(a, b) == IF a > b THEN a ELSE b

\* Math.round of the non-negative rational n/d: nearest integer, halves up
RoundDiv(n, d) == (2 * n + d) \div (2 * d)

-----------------------------------------------------------------------------
(* Colour-to-alpha transform: removeBackground *)

RGB(r, g, b) == [r |-> r, g |-> g, b |-> b]
RGBA(c, a) == [r |-> c.r, g |-> c.g, b |-> c.b, a |-> a]
ColourOf(px) == [r |-> px.r, g |-> px.g, b |-> px.b]

\* a freshly constructed ImageData is transparent black
ZeroPixel == [r |-> 0, g |-> 0, b |-> 0, a |-> 0]

\* variant: the comparison is reversed, so the largest channel ratio is kept
RatioStepLargest(acc, p, t) ==
    IF t > 0 /\ p * acc[2] > acc[1] * t THEN <<p, t>> ELSE acc

\* One "if (target > 0) alphaRatio = Math.min(alphaRatio, c / target)" step.
\* The ratio is the exact fraction <<numerator, denominator>>.
RatioStep(acc, p, t) ==
    IF t > 0 /\ p * acc[2] < acc[1] * t THEN <<p, t>> ELSE acc

\* variant: the blue channel test is missing
AlphaRatioNoBlue(px, tc) ==
    LET a1 == RatioStep(<<1, 1>>, px.r, tc.r)
    IN  RatioStep(a1, px.g, tc.g)

\* variant: a black target is special-cased to leave the image opaque
AlphaRatioBlackOpaque(px, tc) ==
    IF tc.r = 0 /\ tc.g = 0 /\ tc.b = 0 THEN <<0, 1>>
    ELSE RatioStep(RatioStep(RatioStep(<<1, 1>>, px.r, tc.r), px.g, tc.g), px.b, tc.b)

\* alphaRatio after the three channel tests and the clamp to [0, 1]
AlphaRatio(px, tc) ==
    LET a0 == <<1, 1>>
        a1 == RatioStep(a0, px.r, tc.r)
        a2 == RatioStep(a1, px.g, tc.g)
        a3 == RatioStep(a2, px.b, tc.b)
    IN  IF a3[1] < 0 THEN <<0, 1>>
        ELSE IF a3[1] > a3[2] THEN <<1, 1>> ELSE a3

\* variant: the alpha channel is taken from the ratio itself, not from 1 - ratio
OutAlphaInverted(ratio) == RoundDiv(255 * ratio[1], ratio[2])

\* Math.round(alpha * 255) with alpha = 1 - alphaRatio
OutAlpha(ratio) == RoundDiv(255 * (ratio[2] - ratio[1]), ratio[2])

\* variant: the target is subtracted in full, (c - target) / alpha
OutChannelFullSubtract(p, t, ratio) ==
    LET n == ratio[1]
        d == ratio[2]
        num == (p - t) * d
    IN  IF d - n > 0
        THEN IF num < 0 THEN 0
             ELSE IF num > 255 * (d - n) THEN 255
             ELSE (2 * num + (d - n)) \div (2 * (d - n))
        ELSE 0

\* Math.round(clamp01(alpha > 0 ? (c - target * (1 - alpha)) / alpha : 0) * 255)
\* for a channel value p and target channel t, both in 0..255
OutChannel(p, t, ratio) ==
    LET n == ratio[1]
        d == ratio[2]
        num == p * d - t * n
    IN  IF d - n > 0
        THEN IF num < 0 THEN 0
             ELSE IF num > 255 * (d - n) THEN 255
             ELSE RoundDiv(num, d - n)
        ELSE 0

\* variant: the alpha of the source pixel scales the alpha of the result
TransformPixelKeepAlpha(px, tc) ==
    LET ratio == AlphaRatio(px, tc)
    IN  [r |-> OutChannel(px.r, tc.r, ratio),
         g |-> OutChannel(px.g, tc.g, ratio),
         b |-> OutChannel(px.b, tc.b, ratio),
         a |-> (OutAlpha(ratio) * px.a) \div 255]

\* the body of the pixel loop
TransformPixel(px, tc) ==
    LET ratio == AlphaRatio(px, tc)
    IN  [r |-> OutChannel(px.r, tc.r, ratio),
         g |-> OutChannel(px.g, tc.g, ratio),
         b |-> OutChannel(px.b, tc.b, ratio),
         a |-> OutAlpha(ratio)]

\* removeBackground(imageData, targetColor): the result is a new buffer of
\* width * height pixels; the loop runs over the source data, and a write
\* past the end of the result's typed array is dropped.
removeBackground(imageData, targetColor) ==
    [width  |-> imageData.width,
     height |-> imageData.height,
     data   |-> [i \in 1..(imageData.width * imageData.height) |->
                    IF i <= Len(imageData.data)
                    THEN TransformPixel(imageData.data[i], targetColor)
                    ELSE ZeroPixel]]

-----------------------------------------------------------------------------
(* Text inputs: a string is a sequence of one-character strings *)

Digits == <<"0", "1", "2", "3", "4", "5", "6", "7", "8", "9">>
IsDigit(c) == \E i \in 1..10 : Digits[i] = c
DigitVal(c) == (CHOOSE i \in 1..10 : Digits[i] = c) - 1

RECURSIVE ParseDigits(_, _, _)
ParseDigits(s, i, acc) ==
    IF i > Len(s) \/ ~IsDigit(s[i]) THEN acc
    ELSE ParseDigits(s, i + 1, acc * 10 + DigitVal(s[i]))

\* parseInt(value): an optional sign, then the leading run of digits; what
\* follows the digits is ignored; NaN (Null here) when there is no digit.
ParseInt(s) ==
    LET neg   == Len(s) >= 1 /\ s[1] = "-"
        start == IF neg THEN 2 ELSE 1
    IN  IF start > Len(s) \/ ~IsDigit(s[start]) THEN Null
        ELSE Some((IF neg THEN -1 ELSE 1) * ParseDigits(s, start, 0))

RECURSIVE TrimLeft(_)
TrimLeft(s) == IF s # <<>> /\ Head(s) = " " THEN TrimLeft(Tail(s)) ELSE s
RECURSIVE TrimRight(_)
TrimRight(s) ==
    IF s # <<>> /\ s[Len(s)] = " " THEN TrimRight(SubSeq(s, 1, Len(s) - 1)) ELSE s
\* String.prototype.trim
Trim(s) == TrimRight(TrimLeft(s))

\* values typed into a coordinate input
Tokens == { <<>>, <<"-", "1">>, <<"2">>, <<"2", ".", "5">>, <<"3">> }
\* values typed into the stamp name input
Names == { <<>>, <<" ">>, <<"s">> }
\* scaled and rounded click coordinates, before clamping
ClickCoords == {0, 9}

-----------------------------------------------------------------------------
(* Files offered to the upload *)

White == RGB(255, 255, 255)
Grey == RGB(200, 200, 200)
Red == RGB(255, 0, 0)
Black == RGB(0, 0, 0)

Opaque(c) == RGBA(c, 255)

FileA == [name |-> "a.png", major |-> "image", sub |-> "png", size |-> 1000,
          decodes |-> TRUE, width |-> 2, height |-> 2,
          data |-> <<Opaque(White), Opaque(Grey), Opaque(Red), Opaque(White)>>]
FileB == [name |-> "b.png", major |-> "image", sub |-> "png", size |-> 1000,
          decodes |-> TRUE, width |-> 1, height |-> 1,
          data |-> <<Opaque(Grey)>>]
FileCorrupt == [name |-> "c.png", major |-> "image", sub |-> "png", size |-> 1000,
                decodes |-> FALSE, width |-> 0, height |-> 0, data |-> <<>>]
FileJpeg == [name |-> "d.jpg", major |-> "image", sub |-> "jpeg", size |-> 1000,
             decodes |-> TRUE, width |-> 1, height |-> 1,
             data |-> <<Opaque(White)>>]
Files == {FileA, FileB, FileCorrupt, FileJpeg}

\* the ImageData that ctx.getImageData returns for a decoded file
ImageDataOf(f) == [width |-> f.width, height |-> f.height, data |-> f.data]

-----------------------------------------------------------------------------
(* Errors shown in ui.error *)

Err(msg) == Some([msg |-> msg, line |-> "", max |-> 0, items |-> <<>>])
BoundsErr(msg, line, max) == Some([msg |-> msg, line |-> line, max |-> max, items |-> <<>>])
ListErr(msg, items) == Some([msg |-> msg, line |-> "", max |-> 0, items |-> items])

\* validateFile(file)
validateFile(f) ==
    IF f.major # "image" THEN Err("Please select an image file")
    ELSE IF f.sub # "png" THEN Err("Please select a PNG image file")
    ELSE IF f.size > 10 * 1024 * 1024 THEN Err("File size must be less than 10MB")
    ELSE Null

-----------------------------------------------------------------------------
(* Initial application state *)

YLines == {"headerBottom", "footerTop", "textLine", "baseline", "topLine"}
XLines == {"leftStart", "rightStart"}
LineNames == YLines \cup XLines

LineTools == {"header", "footer", "text", "baseline", "top", "left", "right"}

\* the line that handleCanvasClick assigns for a tool
ToolLine(tool) ==
    CASE tool = "header"   -> "headerBottom"
      [] tool = "footer"   -> "footerTop"
      [] tool = "text"     -> "textLine"
      [] tool = "baseline" -> "baseline"
      [] tool = "top"      -> "topLine"
      [] tool = "left"     -> "leftStart"
      [] tool = "right"    -> "rightStart"

initialImage == [original |-> Null, processed |-> Null, file |-> Null, dimensions |-> Null]
initialLines == [headerBottom |-> Null, footerTop |-> Null, textLine |-> Null,
                 baseline |-> Null, topLine |-> Null, leftStart |-> Null,
                 rightStart |-> Null, letterLines |-> <<>>]
initialUi == [currentTool |-> "none", loading |-> FALSE, error |-> Null]
initialExport == [name |-> <<>>, ready |-> FALSE]

NoOp == [op |-> "init", line |-> "", input |-> <<>>, outcome |-> ""]
Did(op, line, input, outcome) ==
    [op |-> op, line |-> line, input |-> input, outcome |-> outcome]

EmptyCanvas == [width |-> 0, height |-> 0, data |-> <<>>]
IdleBuffer == [width |-> 0, height |-> 0, data |-> <<>>]

AppStart ==
    /\ image = initialImage
    /\ lines = initialLines
    /\ ui = initialUi
    /\ export = initialExport
    /\ canvas = EmptyCanvas
    /\ pending = {}
    /\ last = NoOp
    /\ steps = 0
    /\ download = Null

XfIdle ==
    /\ src = IdleBuffer
    /\ tgt = Black
    /\ out = Null

Init == AppStart /\ budget = MaxSteps /\ XfIdle

-----------------------------------------------------------------------------
(* Pieces of the handlers *)

HasImage == ~IsNull(image.original)
HasDimensions == ~IsNull(image.dimensions)

\* every handler invocation is counted and recorded; only handleExport
\* hands a file to the browser
Ran(op, line, input, outcome) ==
    /\ steps' = steps + 1
    /\ last' = Did(op, line, input, outcome)
    /\ download' = download
    /\ UNCHANGED <<budget, xfVars>>

\* validateCoordinate(value, dimension)
validateCoordinate(value, dimension) ==
    IF IsNull(image.dimensions) THEN FALSE
    ELSE LET max == IF dimension = "width" THEN Val(image.dimensions).width
                    ELSE Val(image.dimensions).height
         IN  value >= 0 /\ value <= max

\* the dimension a named line is checked against
DimensionOf(lineType) == IF lineType \in YLines THEN "height" ELSE "width"

\* appState.image.dimensions?.[dimension] || 0
DimensionOrZero(dimension) ==
    IF IsNull(image.dimensions) THEN 0
    ELSE IF dimension = "width" THEN Val(image.dimensions).width
    ELSE Val(image.dimensions).height

\* Math.max(0, Math.min(v, size - 1))
Clamp(v, size) == Max(0, Min(v, size - 1))

RECURSIVE InsertSorted(_, _)
InsertSorted(s, x) ==
    IF s = <<>> THEN <<x>>
    ELSE IF x < Head(s) THEN <<x>> \o s
    ELSE <<Head(s)>> \o InsertSorted(Tail(s), x)

RECURSIVE SortAsc(_)
\* Array.prototype.sort((a, b) => a - b)
SortAsc(s) == IF s = <<>> THEN <<>> ELSE InsertSorted(SortAsc(Tail(s)), Head(s))

\* variant: the new entry is appended and the list is not sorted
AppendUnsorted(s, x) == Append(s, x)

\* [...letterLines, x].sort((a, b) => a - b)
AppendSorted(s, x) == SortAsc(Append(s, x))

\* letterLines.includes(x)
Includes(s, x) == \E i \in 1..Len(s) : s[i] = x

\* variant: splice(index) without a count, which removes to the end of the list
SpliceToEnd(s, i) == SubSeq(s, 1, i - 1)

\* splice(index, 1) on a copy: the list without the entry at position i (from 1)
Splice(s, i) == SubSeq(s, 1, i - 1) \o SubSeq(s, i + 1, Len(s))

\* the image record that originalOnload stores
LoadedImage(f) ==
    [original   |-> Some(ImageDataOf(f)),
     processed  |-> Null,
     file       |-> Some(f.name),
     dimensions |-> Some([width |-> f.width, height |-> f.height])]

\* variant: the removal is done in place, so the original holds the result too
WithProcessedInPlace(img, p) == [img EXCEPT !.processed = Some(p), !.original = Some(p)]

\* { ...appState.image, processed: processedImageData }
WithProcessed(img, p) == [img EXCEPT !.processed = Some(p)]

\* { ...appState.image, processed: null }
WithoutProcessed(img) == [img EXCEPT !.processed = Null]

\* ctx.getImageData(x, y, 1, 1) on the main canvas: the pixel at (x, y), or
\* transparent black outside the canvas
CanvasPixel(x, y) ==
    IF x >= 0 /\ x < canvas.width /\ y >= 0 /\ y < canvas.height
    THEN canvas.data[y * canvas.width + x + 1]
    ELSE ZeroPixel

\* getPixelColor(x, y)
getPixelColor(x, y) == ColourOf(CanvasPixel(x, y))

\* variant: appState.image.original || appState.image.processed
ImageToDrawOriginalFirst ==
    IF ~IsNull(image.original) THEN image.original ELSE image.processed

\* appState.image.processed || appState.image.original
ImageToDraw ==
    IF ~IsNull(image.processed) THEN image.processed ELSE image.original

-----------------------------------------------------------------------------
(* FileUpload: loadImageFile and the callbacks of the Image element *)

\* loadImageFile(file), up to the point where img.src is assigned
LoadImageFile(f, ctxOk) ==
    /\ steps < budget
    /\ IF ~IsNull(validateFile(f))
       THEN /\ ui' = [ui EXCEPT !.error = validateFile(f), !.loading = FALSE]
            /\ pending' = pending
            /\ Ran("loadImageFile", "", <<>>, "invalid")
       ELSE IF ~ctxOk
       THEN /\ ui' = [ui EXCEPT !.loading = FALSE,
                        !.error = Err("Failed to process image file")]
            /\ pending' = pending
            /\ Ran("loadImageFile", "", <<>>, "failed")
       ELSE /\ Cardinality(pending) < MaxPending
            /\ ui' = [ui EXCEPT !.loading = TRUE, !.error = Null]
            /\ pending' = pending \cup {[file |-> f, ui |-> ui]}
            /\ Ran("loadImageFile", "", <<>>, "started")
    /\ UNCHANGED <<image, lines, export, canvas>>

\* img.onload: originalOnload, with the appState of the render that started the
\* load.  The callbacks of the decoder are not handler invocations of the
\* user, so the budget does not hold them back.
OnLoad(p) ==
    /\ p \in pending
    /\ p.file.decodes
    /\ image' = LoadedImage(p.file)
    /\ ui' = [p.ui EXCEPT !.loading = FALSE, !.error = Null]
    /\ canvas' = ImageDataOf(p.file)
    /\ pending' = pending \ {p}
    /\ Ran("onload", "", <<>>, "loaded")
    /\ UNCHANGED <<lines, export>>

\* variant: the callback reports the error and leaves loading as it is
OnErrorKeepsLoading(p) ==
    /\ p \in pending
    /\ ~p.file.decodes
    /\ ui' = [ui EXCEPT !.error = Err("Failed to load image. Please try a different file.")]
    /\ pending' = pending \ {p}
    /\ Ran("onerror", "", <<>>, "failed")
    /\ UNCHANGED <<image, lines, export, canvas>>

\* img.onerror
OnError(p) ==
    /\ p \in pending
    /\ ~p.file.decodes
    /\ ui' = [p.ui EXCEPT !.loading = FALSE,
                          !.error = Err("Failed to load image. Please try a different file.")]
    /\ pending' = pending \ {p}
    /\ Ran("onerror", "", <<>>, "failed")
    /\ UNCHANGED <<image, lines, export, canvas>>

-----------------------------------------------------------------------------
(* LineSelection: tool buttons, letter-line list, Clear All Lines *)

\* setTool(tool), from one of the eight line-tool buttons
SetTool(tool) ==
    /\ steps < budget
    /\ HasImage
    /\ ui' = [ui EXCEPT !.currentTool = tool, !.error = Null]
    /\ Ran("setTool", "", <<>>, tool)
    /\ UNCHANGED <<image, lines, export, canvas, pending>>

\* removeLetterLine(index), from the button beside entry index
RemoveLetterLine(index) ==
    /\ steps < budget
    /\ index \in 1..Len(lines.letterLines)
    /\ lines' = [lines EXCEPT !.letterLines = Splice(lines.letterLines, index)]
    /\ Ran("removeLetterLine", "letterLines", <<ToString(index)>>, "removed")
    /\ UNCHANGED <<image, ui, export, canvas, pending>>

\* clearAllLines
ClearAllLines ==
    /\ steps < budget
    /\ HasImage
    /\ lines' = initialLines
    /\ ui' = [ui EXCEPT !.currentTool = "none"]
    /\ Ran("clearAllLines", "", <<>>, "cleared")
    /\ UNCHANGED <<image, export, canvas, pending>>

-----------------------------------------------------------------------------
(* App: handleCanvasClick on the lines canvas *)

\* variant: the update does not spread appState.lines, so the other lines are lost
ClickedLinesNoSpread(tool, clampedX, clampedY) ==
    IF tool = "letter"
    THEN [initialLines EXCEPT !.letterLines = AppendSorted(lines.letterLines, clampedX)]
    ELSE IF ToolLine(tool) \in YLines
    THEN [initialLines EXCEPT ![ToolLine(tool)] = Some(clampedY)]
    ELSE [initialLines EXCEPT ![ToolLine(tool)] = Some(clampedX)]

\* the lines record after a click at the clamped position with a line tool
ClickedLines(tool, clampedX, clampedY) ==
    IF tool = "letter"
    THEN [lines EXCEPT !.letterLines = AppendSorted(lines.letterLines, clampedX)]
    ELSE IF ToolLine(tool) \in YLines
    THEN [lines EXCEPT ![ToolLine(tool)] = Some(clampedY)]
    ELSE [lines EXCEPT ![ToolLine(tool)] = Some(clampedX)]

\* handleCanvasClick(event), x and y being the scaled, rounded coordinates
HandleCanvasClick(x, y) ==
    /\ steps < budget
    /\ IF ~HasDimensions \/ ui.currentTool \in {"none", "background"}
       THEN /\ lines' = lines
            /\ Ran("handleCanvasClick", "", <<>>, "ignored")
       ELSE /\ ui.currentTool = "letter" => Len(lines.letterLines) < MaxLetters
            /\ LET clampedX == Clamp(x, Val(image.dimensions).width)
                   clampedY == Clamp(y, Val(image.dimensions).height)
               IN  lines' = ClickedLines(ui.currentTool, clampedX, clampedY)
            /\ Ran("handleCanvasClick",
                   IF ui.currentTool = "letter" THEN "letterLines"
                   ELSE ToolLine(ui.currentTool),
                   <<>>, "set")
    /\ UNCHANGED <<image, ui, export, canvas, pending>>

\* handleCanvasClick of LineSelection, on its overlay canvas, which takes
\* pointer events only while a line tool or the letter tool is active; x and
\* y are the scaled, rounded coordinates, used as they are
HandleOverlayClick(x, y) ==
    /\ steps < budget
    /\ ui.currentTool \notin {"none", "background"}
    /\ ui.currentTool = "letter" => Len(lines.letterLines) < MaxLetters
    /\ lines' = ClickedLines(ui.currentTool, x, y)
    /\ ui' = [ui EXCEPT !.currentTool = "none"]
    /\ Ran("handleOverlayClick",
           IF ui.currentTool = "letter" THEN "letterLines" ELSE ToolLine(ui.currentTool),
           <<>>, "set")
    /\ UNCHANGED <<image, export, canvas, pending>>

-----------------------------------------------------------------------------
(* ManualInputs *)

\* updateLineCoordinate(lineType, value), from the onChange of a coordinate input
UpdateLineCoordinate(lineType, value) ==
    /\ steps < budget
    /\ HasDimensions
    /\ LET numValue == ParseInt(value)
       IN  IF IsNull(numValue)
           THEN /\ lines' = [lines EXCEPT ![lineType] = Null]
                /\ ui' = ui
                /\ Ran("updateLineCoordinate", lineType, value, "cleared")
           ELSE IF ~validateCoordinate(Val(numValue), DimensionOf(lineType))
           THEN /\ lines' = lines
                /\ ui' = [ui EXCEPT !.error =
                            BoundsErr("coordinate must be between 0 and", lineType,
                                      DimensionOrZero(DimensionOf(lineType)))]
                /\ Ran("updateLineCoordinate", lineType, value, "rejected")
           ELSE /\ lines' = [lines EXCEPT ![lineType] = numValue]
                /\ ui' = [ui EXCEPT !.error = Null]
                /\ Ran("updateLineCoordinate", lineType, value, "set")
    /\ UNCHANGED <<image, export, canvas, pending>>

\* handleInputBlur(lineType) leaving an empty input
HandleInputBlur(lineType) ==
    /\ steps < budget
    /\ HasDimensions
    /\ lines' = [lines EXCEPT ![lineType] = Null]
    /\ Ran("handleInputBlur", lineType, <<>>, "cleared")
    /\ UNCHANGED <<image, ui, export, canvas, pending>>

\* handleInputFocus
HandleInputFocus ==
    /\ steps < budget
    /\ HasDimensions
    /\ ui' = [ui EXCEPT !.error = Null]
    /\ Ran("handleInputFocus", "", <<>>, "")
    /\ UNCHANGED <<image, lines, export, canvas, pending>>

\* addLetterLine(value), from Enter in the letter-line input
AddLetterLine(value) ==
    /\ steps < budget
    /\ HasDimensions
    /\ LET numValue == ParseInt(value)
       IN  IF IsNull(numValue)
           THEN /\ UNCHANGED <<lines, ui>>
                /\ Ran("addLetterLine", "letterLines", value, "ignored")
           ELSE IF ~validateCoordinate(Val(numValue), "width")
           THEN /\ lines' = lines
                /\ ui' = [ui EXCEPT !.error =
                            BoundsErr("Letter line X coordinate must be between 0 and",
                                      "letterLines", DimensionOrZero("width"))]
                /\ Ran("addLetterLine", "letterLines", value, "rejected")
           ELSE IF ~Includes(lines.letterLines, Val(numValue))
           THEN /\ Len(lines.letterLines) < MaxLetters
                /\ lines' = [lines EXCEPT !.letterLines =
                                AppendSorted(lines.letterLines, Val(numValue))]
                /\ ui' = [ui EXCEPT !.error = Null]
                /\ Ran("addLetterLine", "letterLines", value, "added")
           ELSE /\ UNCHANGED <<lines, ui>>
                /\ Ran("addLetterLine", "letterLines", value, "present")
    /\ UNCHANGED <<image, export, canvas, pending>>

-----------------------------------------------------------------------------
(* BackgroundRemoval *)

\* positions of a click on the canvas while the background tool is active
PickCoords == { <<0, 0>>, <<1, 0>>, <<0, 1>>, <<5, 5>> }

\* variant: the removal starts from the image on display, processed || original
RemovalSourceOnDisplay == Val(ImageToDraw)

\* the buffer processBackgroundRemoval hands to removeBackground
RemovalSource == Val(image.original)

\* enableBackgroundRemoval
EnableBackgroundRemoval ==
    /\ steps < budget
    /\ HasImage
    /\ ~ui.loading
    /\ ui' = [ui EXCEPT !.currentTool = "background", !.error = Null]
    /\ Ran("enableBackgroundRemoval", "", <<>>, "")
    /\ UNCHANGED <<image, lines, export, canvas, pending>>

\* handleCanvasClick of BackgroundRemoval and the processBackgroundRemoval(x, y)
\* it calls; ctxOk is whether getContext('2d') yields a context.  The handler
\* is attached to the component's own canvas, which is styled display: none,
\* so it runs on a click dispatched to that element, not on a click on the
\* image.
HandleBackgroundClick(x, y, ctxOk) ==
    /\ steps < budget
    /\ ui.currentTool = "background"
    /\ IF ~HasImage
       THEN /\ ui' = [ui EXCEPT !.error = Err("No image loaded for background removal")]
            /\ UNCHANGED <<image, canvas>>
            /\ Ran("processBackgroundRemoval", "", <<>>, "noimage")
       ELSE IF ~ctxOk
       THEN /\ ui' = [ui EXCEPT !.loading = FALSE,
                        !.error = Err("Failed to remove background. Please try again.")]
            /\ UNCHANGED <<image, canvas>>
            /\ Ran("processBackgroundRemoval", "", <<>>, "failed")
       ELSE LET processedImageData ==
                    removeBackground(RemovalSource, getPixelColor(x, y))
            IN  /\ image' = WithProcessed(image, processedImageData)
                /\ canvas' = processedImageData
                /\ ui' = [ui EXCEPT !.loading = FALSE, !.currentTool = "none"]
                /\ Ran("processBackgroundRemoval", "", <<getPixelColor(x, y)>>,
                       "processed")
    /\ UNCHANGED <<lines, export, pending>>

\* resetToOriginal, from the button shown while a processed image exists
ResetToOriginal ==
    /\ steps < budget
    /\ ~IsNull(image.processed)
    /\ ~ui.loading
    /\ HasImage
    /\ canvas' = Val(image.original)
    /\ image' = WithoutProcessed(image)
    /\ ui' = [ui EXCEPT !.currentTool = "none"]
    /\ Ran("resetToOriginal", "", <<>>, "")
    /\ UNCHANGED <<lines, export, pending>>

-----------------------------------------------------------------------------
(* JsonExport *)

\* the font size used when baseline or textLine is missing
DefaultFontSize == 32

\* JavaScript truthiness of a nullable number: null and 0 are falsy
Truthy(o) == ~IsNull(o) /\ Val(o) # 0
\* o || 0
OrZero(o) == IF Truthy(o) THEN Val(o) ELSE 0
\* Math.abs
Abs(n) == IF n < 0 THEN -n ELSE n

\* an array literal and an {x, y} object literal of the exported record, as
\* JSON.stringify writes them
JsonArray(items) == [kind |-> "array", items |-> items]
JsonPoint(x, y) == [kind |-> "object", x |-> x, y |-> y]

\* variant: validation stops at the first failing requirement
validateExportDataFirst ==
    IF Trim(export.name) = <<>> THEN <<"Stamp name is required">>
    ELSE IF IsNull(image.processed) /\ IsNull(image.original) THEN <<"No image loaded">>
    ELSE IF IsNull(lines.headerBottom) THEN <<"Header bottom line is required">>
    ELSE IF IsNull(lines.footerTop) THEN <<"Footer top line is required">>
    ELSE IF IsNull(lines.textLine) THEN <<"Text line is required">>
    ELSE IF IsNull(lines.baseline) THEN <<"Baseline is required">>
    ELSE IF IsNull(lines.leftStart) THEN <<"Left start line is required">>
    ELSE IF IsNull(lines.rightStart) THEN <<"Right start line is required">>
    ELSE <<>>

\* variant: validation also requires the lines to be in their logical order
validateExportDataOrdered ==
    (IF Trim(export.name) = <<>> THEN <<"Stamp name is required">> ELSE <<>>)
    \o (IF IsNull(image.processed) /\ IsNull(image.original)
        THEN <<"No image loaded">> ELSE <<>>)
    \o (IF IsNull(lines.headerBottom) THEN <<"Header bottom line is required">> ELSE <<>>)
    \o (IF IsNull(lines.footerTop) THEN <<"Footer top line is required">> ELSE <<>>)
    \o (IF IsNull(lines.textLine) THEN <<"Text line is required">> ELSE <<>>)
    \o (IF IsNull(lines.baseline) THEN <<"Baseline is required">> ELSE <<>>)
    \o (IF IsNull(lines.leftStart) THEN <<"Left start line is required">> ELSE <<>>)
    \o (IF IsNull(lines.rightStart) THEN <<"Right start line is required">> ELSE <<>>)
    \o (IF \/ ~IsNull(lines.headerBottom) /\ ~IsNull(lines.footerTop)
              /\ Val(lines.headerBottom) > Val(lines.footerTop)
           \/ ~IsNull(lines.topLine) /\ ~IsNull(lines.headerBottom)
              /\ Val(lines.topLine) > Val(lines.headerBottom)
           \/ ~IsNull(lines.leftStart) /\ ~IsNull(lines.rightStart)
              /\ Val(lines.leftStart) > Val(lines.rightStart)
        THEN <<"Lines are out of order">> ELSE <<>>)

\* the messages of validateExportData, in order
validateExportData ==
    (IF Trim(export.name) = <<>> THEN <<"Stamp name is required">> ELSE <<>>)
    \o (IF IsNull(image.processed) /\ IsNull(image.original)
        THEN <<"No image loaded">> ELSE <<>>)
    \o (IF IsNull(lines.headerBottom) THEN <<"Header bottom line is required">> ELSE <<>>)
    \o (IF IsNull(lines.footerTop) THEN <<"Footer top line is required">> ELSE <<>>)
    \o (IF IsNull(lines.textLine) THEN <<"Text line is required">> ELSE <<>>)
    \o (IF IsNull(lines.baseline) THEN <<"Baseline is required">> ELSE <<>>)
    \o (IF IsNull(lines.leftStart) THEN <<"Left start line is required">> ELSE <<>>)
    \o (IF IsNull(lines.rightStart) THEN <<"Right start line is required">> ELSE <<>>)

\* the content of the main canvas after getImageDataUrl has put the image on it
CanvasAfterPut == IF IsNull(ImageToDraw) THEN canvas ELSE Val(ImageToDraw)

\* canvas.toDataURL('image/png'): the PNG encoding of the canvas content
getImageDataUrl == [png |-> CanvasAfterPut]

\* variant: the index of the last pixel row, height - 1
ReferenceHeightLastRow == Val(image.dimensions).height - 1

\* image.dimensions.height
ReferenceHeight == Val(image.dimensions).height

\* the object built by generateStampData (image.dimensions being set)
generateStampData ==
    [name            |-> Trim(export.name),
     type            |-> "SYNDICATE",
     headerBottom    |-> lines.headerBottom,
     footerTop       |-> lines.footerTop,
     fontSize        |-> IF Truthy(lines.baseline) /\ Truthy(lines.textLine)
                         THEN Abs(Val(lines.baseline) - Val(lines.textLine))
                         ELSE DefaultFontSize,
     referenceHeight |-> ReferenceHeight,
     leftStart       |-> JsonArray(<< JsonPoint(lines.leftStart, OrZero(lines.baseline)) >>),
     rightStart      |-> JsonArray(<< JsonPoint(lines.rightStart, OrZero(lines.baseline)) >>),
     baseCoordinate  |-> JsonArray(<< JsonArray([i \in 1..Len(lines.letterLines) |->
                                        JsonPoint(lines.letterLines[i],
                                                  OrZero(lines.baseline))]) >>),
     offset          |-> JsonPoint(0, 0),
     imageData       |-> getImageDataUrl]

\* variant: the update does not spread appState.export, so the name is lost
WithReadyNoSpread(e) == [name |-> <<>>, ready |-> TRUE]

\* { ...appState.export, ready: true }
WithReady(e) == [e EXCEPT !.ready = TRUE]

\* handleExport
HandleExport ==
    /\ steps < budget
    /\ steps' = steps + 1
    /\ IF validateExportData # <<>>
       THEN /\ ui' = [ui EXCEPT !.error = ListErr("Cannot export", validateExportData)]
            /\ last' = Did("handleExport", "", <<>>, "invalid")
            /\ UNCHANGED <<export, canvas, download>>
       ELSE IF ~HasDimensions
       THEN /\ ui' = [ui EXCEPT !.loading = FALSE,
                        !.error = Err("Export failed: Image dimensions not available")]
            /\ last' = Did("handleExport", "", <<>>, "failed")
            /\ UNCHANGED <<export, canvas, download>>
       ELSE /\ download' = Some(generateStampData)
            /\ canvas' = CanvasAfterPut
            /\ export' = WithReady(export)
            /\ ui' = [ui EXCEPT !.loading = FALSE, !.error = Null]
            /\ last' = Did("handleExport", "", <<>>, "exported")
    /\ UNCHANGED <<image, lines, pending, budget>>
    /\ UNCHANGED xfVars

\* handleNameChange, with the new content of the name input
HandleNameChange(name) ==
    /\ steps < budget
    /\ export' = [export EXCEPT !.name = name]
    /\ Ran("handleNameChange", "", name, "")
    /\ UNCHANGED <<image, lines, ui, canvas, pending>>

\* previewData, from the Preview Data button
PreviewData ==
    /\ steps < budget
    /\ HasImage
    /\ IF ~HasDimensions
       THEN /\ ui' = [ui EXCEPT !.error =
                        Err("Preview failed: Image dimensions not available")]
            /\ canvas' = canvas
       ELSE /\ canvas' = CanvasAfterPut
            /\ ui' = ui
    /\ Ran("previewData", "", <<>>, "")
    /\ UNCHANGED <<image, lines, export, pending>>

-----------------------------------------------------------------------------
(* The application *)

Next ==
    \/ \E f \in Files, ctxOk \in BOOLEAN : LoadImageFile(f, ctxOk)
    \/ \E p \in pending : OnLoad(p)
    \/ \E p \in pending : OnError(p)
    \/ \E tool \in LineTools \cup {"letter"} : SetTool(tool)
    \/ \E index \in 1..MaxLetters : RemoveLetterLine(index)
    \/ ClearAllLines
    \/ \E x, y \in ClickCoords : HandleCanvasClick(x, y)
    \/ \E x, y \in ClickCoords : HandleOverlayClick(x, y)
    \/ \E lineType \in LineNames, value \in Tokens : UpdateLineCoordinate(lineType, value)
    \/ \E lineType \in LineNames : HandleInputBlur(lineType)
    \/ HandleInputFocus
    \/ \E value \in Tokens : AddLetterLine(value)
    \/ EnableBackgroundRemoval
    \/ \E c \in PickCoords, ctxOk \in BOOLEAN : HandleBackgroundClick(c[1], c[2], ctxOk)
    \/ ResetToOriginal
    \/ HandleExport
    \/ \E name \in Names : HandleNameChange(name)
    \/ PreviewData

Spec == Init /\ [][Next]_vars

-----------------------------------------------------------------------------
(* The application from a state in which an export can succeed.             *)
(* ReadyInit is the state after: load a.png; header tool, click (0,0);      *)
(* text tool, click (9,9); left tool, click (0,0); footerTop, baseline and  *)
(* rightStart typed as "2"; name typed as "s".                              *)

ReadyLines == [headerBottom |-> Some(0), footerTop |-> Some(2), textLine |-> Some(1),
               baseline |-> Some(2), topLine |-> Null, leftStart |-> Some(0),
               rightStart |-> Some(2), letterLines |-> <<>>]

ReadyInit ==
    /\ image = LoadedImage(FileA)
    /\ lines = ReadyLines
    /\ ui = [currentTool |-> "left", loading |-> FALSE, error |-> Null]
    /\ export = [name |-> <<"s">>, ready |-> FALSE]
    /\ canvas = ImageDataOf(FileA)
    /\ pending = {}
    /\ last = Did("handleNameChange", "", <<"s">>, "")
    /\ steps = 0
    /\ budget = MaxReadySteps
    /\ download = Null
    /\ XfIdle

SpecReady == ReadyInit /\ [][Next]_vars

-----------------------------------------------------------------------------
(* The application from a state with a processed image.  ProcessedInit is   *)
(* ReadyInit after enableBackgroundRemoval and a background removal with    *)
(* the colour picked at (0,0), which is white.                              *)

ProcessedInit ==
    /\ image = WithProcessed(LoadedImage(FileA), removeBackground(ImageDataOf(FileA), White))
    /\ lines = ReadyLines
    /\ ui = [currentTool |-> "none", loading |-> FALSE, error |-> Null]
    /\ export = [name |-> <<"s">>, ready |-> FALSE]
    /\ canvas = removeBackground(ImageDataOf(FileA), White)
    /\ pending = {}
    /\ last = Did("processBackgroundRemoval", "", <<White>>, "processed")
    /\ steps = 0
    /\ budget = MaxProcessedSteps
    /\ download = Null
    /\ XfIdle

SpecProcessed == ProcessedInit /\ [][Next]_vars

\* the same, with a decoder that eventually fires onload or onerror for every
\* image it was given
SpecLive ==
    /\ ProcessedInit
    /\ [][Next]_vars
    /\ WF_vars(\E p \in pending : OnLoad(p))
    /\ WF_vars(\E p \in pending : OnError(p))

-----------------------------------------------------------------------------
(* The application from a state with one letter line and the letter tool    *)
(* active.  LettersInit is the state after: load a.png; letter tool; click  *)
(* at (9,9), which is clamped to x = 1.                                     *)

LettersInit ==
    /\ image = LoadedImage(FileA)
    /\ lines = [initialLines EXCEPT !.letterLines = <<1>>]
    /\ ui = [currentTool |-> "letter", loading |-> FALSE, error |-> Null]
    /\ export = initialExport
    /\ canvas = ImageDataOf(FileA)
    /\ pending = {}
    /\ last = Did("handleCanvasClick", "letterLines", <<>>, "set")
    /\ steps = 0
    /\ budget = MaxLetterSteps
    /\ download = Null
    /\ XfIdle

SpecLetters == LettersInit /\ [][Next]_vars

-----------------------------------------------------------------------------
(* The transform on its own: removeBackground applied to a source buffer    *)
(* and a target colour drawn from a palette, and applied again to its own   *)
(* result.  The arithmetic of the model is exact; on this palette it agrees *)
(* with the double-precision arithmetic of the source.                      *)

Orange == RGB(200, 100, 0)
Sky == RGB(100, 200, 255)
NearWhite == RGB(254, 255, 255)

Palette == {Black, White, Grey, Red, Orange, Sky, NearWhite}
SourceAlphas == {255, 128}
SourcePixels == {RGBA(c, a) : c \in Palette, a \in SourceAlphas}

\* pixel sequences of length 1..MaxPixels
PixelSeqs == UNION {[1..n -> SourcePixels] : n \in 1..MaxPixels}

\* source buffers one pixel high; the data may be longer or shorter than
\* width * height pixels
Sources == {[width |-> w, height |-> 1, data |-> d] : w \in 1..MaxPixels, d \in PixelSeqs}

WellFormed(buf) == Len(buf.data) = buf.width * buf.height

TransformInit ==
    /\ AppStart
    /\ budget = MaxApply
    /\ src \in Sources
    /\ tgt \in Palette
    /\ out = Null

\* processedImageData = removeBackground(source, targetColor)
ApplyTransform ==
    /\ IsNull(out)
    /\ steps < budget
    /\ out' = Some(removeBackground(src, tgt))
    /\ steps' = steps + 1
    /\ last' = Did("removeBackground", "", <<>>, "first")
    /\ UNCHANGED <<image, lines, ui, export, canvas, pending, budget, download, src, tgt>>

\* the transform applied to its own result, with the same target
Reapply ==
    /\ ~IsNull(out)
    /\ steps < budget
    /\ src' = Val(out)
    /\ out' = Some(removeBackground(Val(out), tgt))
    /\ steps' = steps + 1
    /\ last' = Did("removeBackground", "", <<>>, "again")
    /\ UNCHANGED <<image, lines, ui, export, canvas, pending, budget, download, tgt>>

TransformNext == ApplyTransform \/ Reapply

SpecTransform == TransformInit /\ [][TransformNext]_vars

-----------------------------------------------------------------------------
(* Properties of the image lifecycle *)

\* C1: once an image is loaded, image.original is changed by no handler but
\* the onload callback of a later image load: background removal, Reset to
\* Original, line and letter-line edits, name edits and exports leave it as
\* it is, and removeBackground leaves its source untouched.
OriginalChangesOnlyOnLoad ==
    [][image'.original # image.original => last'.op = "onload"]_vars

\* C1 witness: a background removal and a Reset to Original have run and the
\* original is still the buffer decoded from a.png
OriginalKeptAfterReset ==
    /\ last.op = "resetToOriginal"
    /\ image.original = Some(ImageDataOf(FileA))
    /\ IsNull(image.processed)

-----------------------------------------------------------------------------
(* Properties of the transform *)

\* the pixel positions present in both the source and the result
Common == 1..Min(Len(src.data), Len(Val(out).data))

\* C2: a source pixel whose RGB equals the target gets output alpha 0, and a
\* source made only of the target colour gives alpha 0 at every result pixel.
ExactMatchTransparent ==
    ~IsNull(out) =>
        /\ \A i \in Common :
              ColourOf(src.data[i]) = tgt => Val(out).data[i].a = 0
        /\ (\A i \in 1..Len(src.data) : ColourOf(src.data[i]) = tgt)
              => \A j \in 1..Len(Val(out).data) : Val(out).data[j].a = 0

\* C2 witness: a two-pixel source made only of a non-black target colour has
\* been transformed
SolidTargetTransformed ==
    /\ ~IsNull(out)
    /\ WellFormed(src) /\ Len(src.data) = 2
    /\ tgt # Black
    /\ \A i \in 1..Len(src.data) : ColourOf(src.data[i]) = tgt
    /\ \A j \in 1..Len(Val(out).data) : Val(out).data[j].a = 0

\* C3 as stated: if no source pixel has the target's RGB, every result pixel
\* keeps the source RGB and has alpha 255.
NoMatchKeepsOpaque ==
    (~IsNull(out) /\ \A i \in 1..Len(src.data) : ColourOf(src.data[i]) # tgt)
        => \A i \in Common :
              /\ ColourOf(Val(out).data[i]) = ColourOf(src.data[i])
              /\ Val(out).data[i].a = 255

\* a pixel that is 0 in a channel in which the target is positive
ZeroWhereTargetPositive(px, tc) ==
    \/ tc.r > 0 /\ px.r = 0
    \/ tc.g > 0 /\ px.g = 0
    \/ tc.b > 0 /\ px.b = 0

\* C3 as amended: a source pixel that is 0 in some channel in which the
\* target is positive keeps its RGB and gets alpha 255, and no other pixel
\* gets alpha 255.
ZeroChannelKeepsOpaque ==
    ~IsNull(out) =>
        \A i \in Common :
            /\ ZeroWhereTargetPositive(src.data[i], tgt)
                  => /\ ColourOf(Val(out).data[i]) = ColourOf(src.data[i])
                     /\ Val(out).data[i].a = 255
            /\ Val(out).data[i].a = 255
                  => ZeroWhereTargetPositive(src.data[i], tgt)

\* C3 witness: an orange pixel transformed with a white target stays orange
\* and opaque
OrangeKeptUnderWhite ==
    /\ ~IsNull(out)
    /\ tgt = White
    /\ \E i \in Common :
          /\ ColourOf(src.data[i]) = Orange
          /\ ColourOf(Val(out).data[i]) = Orange
          /\ Val(out).data[i].a = 255

\* C4: with a white target the output alpha of a pixel is 255 - min(r, g, b).
WhiteTargetAlpha ==
    (~IsNull(out) /\ tgt = White) =>
        \A i \in Common :
            Val(out).data[i].a =
                255 - Min(src.data[i].r, Min(src.data[i].g, src.data[i].b))

\* C4 witness: a (200,200,200) pixel got alpha 55 and a white pixel got
\* alpha 0 under a white target
GreyGets55 ==
    /\ ~IsNull(out)
    /\ tgt = White
    /\ \E i \in Common : ColourOf(src.data[i]) = Grey /\ Val(out).data[i].a = 55
    /\ \E i \in Common : ColourOf(src.data[i]) = White /\ Val(out).data[i].a = 0

\* C5: with a black target no channel test fires, the ratio stays 1 and every
\* result pixel has alpha 0.
BlackTargetTransparent ==
    (~IsNull(out) /\ tgt = Black) =>
        /\ \A i \in 1..Len(src.data) : AlphaRatio(src.data[i], tgt) = <<1, 1>>
        /\ \A j \in 1..Len(Val(out).data) : Val(out).data[j].a = 0

\* C5 witness: a source with a white pixel was transformed with a black
\* target and is transparent everywhere
WhiteUnderBlackTransparent ==
    /\ ~IsNull(out)
    /\ tgt = Black
    /\ last.outcome = "first"
    /\ WellFormed(src)
    /\ \E i \in Common : ColourOf(src.data[i]) = White
    /\ \A j \in 1..Len(Val(out).data) : Val(out).data[j].a = 0

\* C6: when the transform is applied again to its own result with the same
\* target, every pixel that had alpha 255 comes out unchanged.
SaturatedPixelsFixed ==
    (~IsNull(out) /\ last.outcome = "again") =>
        \A i \in Common :
            src.data[i].a = 255 => Val(out).data[i] = src.data[i]

\* C6 witness: the second application met a pixel with alpha 255 and a
\* non-zero colour and returned it as it was
SaturatedPixelReapplied ==
    /\ ~IsNull(out)
    /\ last.outcome = "again"
    /\ \E i \in Common :
          /\ src.data[i].a = 255
          /\ src.data[i].r > 0
          /\ Val(out).data[i] = src.data[i]

-----------------------------------------------------------------------------
(* Properties of the reference lines *)

\* a set line lies within the given dimension, both ends included
WithinDimension(line, dimension) ==
    IsNull(line) \/ (0 <= Val(line) /\ Val(line) <= dimension)

\* C8 as stated: in every state with an image, each set Y line is within
\* [0, height], each set X line within [0, width] and each letter line within
\* [0, width], also after a second, smaller image has been loaded.
LinesWithinImage ==
    HasDimensions =>
        /\ \A l \in YLines : WithinDimension(lines[l], Val(image.dimensions).height)
        /\ \A l \in XLines : WithinDimension(lines[l], Val(image.dimensions).width)
        /\ \A i \in 1..Len(lines.letterLines) :
              0 <= lines.letterLines[i]
              /\ lines.letterLines[i] <= Val(image.dimensions).width

\* the text typed into a manual input is not an integer within the bounds of
\* its line: it has a fraction, a sign, or a value above the dimension
Unacceptable(lineType, value) ==
    \/ \E i \in 1..Len(value) : value[i] \in {".", "-"}
    \/ /\ ~IsNull(ParseInt(value))
       /\ ~validateCoordinate(Val(ParseInt(value)), DimensionOf(lineType))

\* C9 as stated: a manual set of a line to a non-integer, negative or
\* out-of-bound value leaves the lines as they were.
ManualRejectKeepsLines ==
    [][(/\ steps' = steps + 1
        /\ last'.op = "updateLineCoordinate"
        /\ Unacceptable(last'.line, last'.input)) => lines' = lines]_vars

\* the handlers that set or clear the one line they are addressed to
OwnEdits ==
    {"updateLineCoordinate", "handleInputBlur", "handleCanvasClick", "handleOverlayClick"}

\* C10 as stated: a line changes only through a set or clear addressed to
\* that line, and a set line returns to unset only by a clear of that line.
LineChangesOnlyByOwnEdit ==
    [][\A l \in LineNames :
          lines'[l] # lines[l] => (last'.op \in OwnEdits /\ last'.line = l)]_vars

\* C10 as amended: a line changes only through a set or clear addressed to
\* that line or through Clear All Lines, and a set line returns to unset only
\* by a clear of that line or by Clear All Lines.
LineChangesByOwnEditOrClearAll ==
    [][\A l \in LineNames :
          /\ lines'[l] # lines[l]
                => \/ last'.op \in OwnEdits /\ last'.line = l
                   \/ last'.op = "clearAllLines"
          /\ (~IsNull(lines[l]) /\ IsNull(lines'[l]))
                => \/ last'.op \in {"updateLineCoordinate", "handleInputBlur"}
                      /\ last'.line = l /\ last'.outcome = "cleared"
                   \/ last'.op = "clearAllLines"]_vars

\* C10 witness: a click has set one line while another line, set before it,
\* kept its value
OtherLineKeptAcrossClick ==
    /\ last.op = "handleCanvasClick"
    /\ last.line \in LineNames
    /\ ~IsNull(lines[last.line])
    /\ \E l \in LineNames \ {last.line} : ~IsNull(lines[l])

-----------------------------------------------------------------------------
(* Properties of the letter lines *)

\* C11: letterLines is in ascending order in every reachable state, after any
\* sequence of additions by click or manual entry and of removals.
LetterLinesAscending ==
    \A i \in 1..(Len(lines.letterLines) - 1) :
        lines.letterLines[i] <= lines.letterLines[i + 1]

\* C11 witness: a click at x = 0 has added an entry that was placed before
\* the entry 1 already in the list
LetterPlacedBefore ==
    /\ last.op = "handleCanvasClick"
    /\ last.line = "letterLines"
    /\ lines.letterLines = <<0, 1>>

\* C12 as stated: letterLines never holds the same X twice.
LetterLinesDistinct ==
    \A i, j \in 1..Len(lines.letterLines) :
        i # j => lines.letterLines[i] # lines.letterLines[j]

\* the X typed into the letter-line input is outside the image width or
\* within one pixel of an entry of the list
OutsideOrNear(value, letters) ==
    /\ ~IsNull(ParseInt(value))
    /\ \/ ~validateCoordinate(Val(ParseInt(value)), "width")
       \/ \E i \in 1..Len(letters) : Abs(Val(ParseInt(value)) - letters[i]) <= 1

\* C13 as stated: addLetterLine(x) with x outside [0, width], or within one
\* pixel of an existing entry, leaves letterLines unchanged.
AddLetterLineRejectsNear ==
    [][(/\ steps' = steps + 1
        /\ last'.op = "addLetterLine"
        /\ OutsideOrNear(last'.input, lines.letterLines))
          => lines'.letterLines = lines.letterLines]_vars

\* C14: removeLetterLine(index) with a valid index gives the list without
\* the entry at that position: one entry fewer, the other entries with their
\* values in their order, and every other line as it was.
RemoveLetterLineExact ==
    [][(steps' = steps + 1 /\ last'.op = "removeLetterLine") =>
          \E k \in 1..Len(lines.letterLines) :
              /\ last'.input = <<ToString(k)>>
              /\ Len(lines'.letterLines) = Len(lines.letterLines) - 1
              /\ \A i \in 1..Len(lines'.letterLines) :
                    lines'.letterLines[i] =
                        lines.letterLines[IF i < k THEN i ELSE i + 1]
              /\ \A l \in LineNames : lines'[l] = lines[l]]_vars

\* C14 witness: the first of two letter lines has been removed and the
\* second, at x = 1, is what remains
FirstLetterRemoved ==
    /\ last.op = "removeLetterLine"
    /\ last.input = <<"1">>
    /\ steps >= 2
    /\ lines.letterLines = <<1>>

-----------------------------------------------------------------------------
(* Properties of the export *)

\* the handler that ran last was handleExport and it handed a record to the
\* browser; lines, image and name are those the record was built from
Exported == last.op = "handleExport" /\ last.outcome = "exported"

\* the five lines an export needs
FiveLines == {"headerBottom", "footerTop", "textLine", "leftStart", "rightStart"}
FiveLinesSet == \A l \in FiveLines : ~IsNull(lines[l])

\* topLine if set, else headerBottom - 1
ResolvedTopLine ==
    IF ~IsNull(lines.topLine) THEN Val(lines.topLine) ELSE Val(lines.headerBottom) - 1

\* C15 as stated: with baseline or topLine unset the export goes ahead on the
\* defaults footerTop + 1 and headerBottom - 1: an export from a state with
\* the five lines, a name and an image but no baseline succeeds, and a record
\* exported with no topLine has fontSize = textLine - (headerBottom - 1).
ExportUsesDefaults ==
    /\ (last.op = "handleExport" /\ FiveLinesSet /\ Trim(export.name) # <<>>
            /\ HasImage /\ IsNull(lines.baseline))
          => Exported
    /\ (Exported /\ IsNull(lines.topLine))
          => Val(download).fontSize = Val(lines.textLine) - (Val(lines.headerBottom) - 1)

\* C16 as stated: the exported fontSize is textLine - resolvedTopLine, with
\* its sign.
FontSizeFromTopLine ==
    Exported => Val(download).fontSize = Val(lines.textLine) - ResolvedTopLine

\* C17 as stated: with a name and an image, an export is permitted exactly
\* when headerBottom, footerTop, textLine, leftStart and rightStart are set.
ReadyIffFiveLinesSet ==
    (last.op = "handleExport" /\ Trim(export.name) # <<>> /\ HasImage)
        => (Exported <=> FiveLinesSet)

\* the report entry for a missing name or a missing line
RequiredMessage(what) ==
    CASE what = "name"         -> "Stamp name is required"
      [] what = "headerBottom" -> "Header bottom line is required"
      [] what = "footerTop"    -> "Footer top line is required"
      [] what = "textLine"     -> "Text line is required"
      [] what = "leftStart"    -> "Left start line is required"
      [] what = "rightStart"   -> "Right start line is required"

\* a precondition of the export that the state does not meet
Unmet(what) ==
    IF what = "name" THEN Trim(export.name) = <<>> ELSE IsNull(lines[what])

\* the number of entries of a report that are the given message
Entries(items, msg) == Cardinality({i \in 1..Len(items) : items[i] = msg})

\* C18: an export attempt with unmet preconditions fails, and its report has
\* one entry for every unmet precondition: the empty name and each unset
\* line among headerBottom, footerTop, textLine, leftStart and rightStart.
ReportNamesEveryUnmet ==
    last.op = "handleExport" =>
        \A what \in FiveLines \cup {"name"} :
            Unmet(what) =>
                /\ last.outcome = "invalid"
                /\ ~IsNull(ui.error)
                /\ Entries(Val(ui.error).items, RequiredMessage(what)) = 1

\* C18 witness: an export was attempted with an empty name and rightStart
\* unset, and the report names both
ReportNamesNameAndRightStart ==
    /\ last.op = "handleExport"
    /\ last.outcome = "invalid"
    /\ Unmet("name") /\ Unmet("rightStart")
    /\ ~Unmet("headerBottom")
    /\ Entries(Val(ui.error).items, RequiredMessage("name")) = 1
    /\ Entries(Val(ui.error).items, RequiredMessage("rightStart")) = 1

\* C19 as stated: in an exported record leftStart and rightStart are single
\* {x, y} objects with x the line and y the text line.
StartPointsOnTextLine ==
    Exported =>
        /\ Val(download).leftStart.kind = "object"
        /\ Val(download).leftStart.x = lines.leftStart
        /\ Val(download).leftStart.y = Val(lines.textLine)
        /\ Val(download).rightStart.kind = "object"
        /\ Val(download).rightStart.x = lines.rightStart
        /\ Val(download).rightStart.y = Val(lines.textLine)

\* C20 as stated: in an exported record baseCoordinate is a flat array with
\* one {x, y} object per letter line, in order, with x the letter line and y
\* the text line; it is empty when there are no letter lines.
BaseCoordinateFlat ==
    Exported =>
        /\ Val(download).baseCoordinate.kind = "array"
        /\ Len(Val(download).baseCoordinate.items) = Len(lines.letterLines)
        /\ \A i \in 1..Len(lines.letterLines) :
              /\ Val(download).baseCoordinate.items[i].kind = "object"
              /\ Val(download).baseCoordinate.items[i].x = lines.letterLines[i]
              /\ Val(download).baseCoordinate.items[i].y = Val(lines.textLine)

-----------------------------------------------------------------------------
(* Properties of the exported record and of the export attempt *)

\* C21: every exported record has type "SYNDICATE", offset {x: 0, y: 0} and
\* referenceHeight equal to the height of the image loaded at the time of
\* the export.
RecordConstants ==
    Exported =>
        /\ Val(download).type = "SYNDICATE"
        /\ Val(download).offset = JsonPoint(0, 0)
        /\ Val(download).referenceHeight = Val(image.original).height

\* C21 witness: b.png, of height 1, was loaded over a.png, of height 2, and
\* the record exported after it has referenceHeight 1
ExportedAfterSecondLoad ==
    /\ Exported
    /\ image.file = Some(FileB.name)
    /\ Val(download).referenceHeight = 1

\* C22: the exported imageData is the encoding of the processed buffer when
\* there is one and of the original buffer otherwise, as after Reset to
\* Original.
ImageDataFromProcessedOrOriginal ==
    Exported =>
        Val(download).imageData.png =
            IF ~IsNull(image.processed) THEN Val(image.processed)
            ELSE Val(image.original)

\* C22 witness: from the state with a processed image, Reset to Original and
\* then an export, whose imageData is the original buffer
ExportedOriginalAfterReset ==
    /\ Exported
    /\ steps = 2
    /\ IsNull(image.processed)
    /\ Val(download).imageData.png = ImageDataOf(FileA)

\* C23: an export attempt, whatever its outcome, leaves image.original,
\* image.processed, the seven lines, letterLines and the name as they were.
ExportLeavesInputs ==
    [][(steps' = steps + 1 /\ last'.op = "handleExport") =>
          /\ image'.original = image.original
          /\ image'.processed = image.processed
          /\ lines' = lines
          /\ export'.name = export.name]_vars

\* C23 witness: an export has succeeded and the name and the lines are those
\* of the state it started from
ExportedWithInputsKept ==
    /\ Exported
    /\ export.ready
    /\ export.name = <<"s">>
    /\ lines = ReadyLines

\* every line that validateExportData asks for is set
SixLinesSet == FiveLinesSet /\ ~IsNull(lines.baseline)

-----------------------------------------------------------------------------
(* Properties of the interaction flows *)

\* C25 as stated: with an image loaded and the background tool active, a
\* click on the image leaves image.processed set and the tool back at 'none'.
ImageClickRemovesBackground ==
    [][(/\ steps' = steps + 1
        /\ last'.op = "handleCanvasClick"
        /\ HasImage
        /\ ui.currentTool = "background")
          => (~IsNull(image'.processed) /\ ui'.currentTool = "none")]_vars

\* C26 as stated: while the letter tool is active, every click adds one
\* letter line and leaves the letter tool active.
LetterToolStaysActive ==
    [][(/\ steps' = steps + 1
        /\ last'.op \in {"handleCanvasClick", "handleOverlayClick"}
        /\ HasDimensions
        /\ ui.currentTool = "letter")
          => /\ Len(lines'.letterLines) = Len(lines.letterLines) + 1
             /\ ui'.currentTool = "letter"]_vars

\* C27: image.processed changes only to null or to the result of
\* removeBackground on the current original with the target just picked, the
\* original being left as it is; so a processed image never comes from an
\* earlier result or from an earlier original.
ProcessedFromOriginal ==
    [][(image'.processed # image.processed \/ image'.original # image.original)
          => \/ IsNull(image'.processed)
             \/ /\ last'.op = "processBackgroundRemoval"
                /\ last'.outcome = "processed"
                /\ image'.original = image.original
                /\ image'.processed =
                      Some(removeBackground(Val(image'.original), last'.input[1]))]_vars

\* C27 witness: after a first removal with white, a second removal picked
\* red from the processed image on display, and the processed image is the
\* original with red removed
SecondRemovalFromOriginal ==
    /\ last.op = "processBackgroundRemoval"
    /\ last.outcome = "processed"
    /\ steps = 2
    /\ last.input = <<Red>>
    /\ image.processed = Some(removeBackground(ImageDataOf(FileA), Red))
    /\ image.processed # Some(removeBackground(removeBackground(ImageDataOf(FileA), White), Red))

\* C28 as stated: the completion of an image load leaves the current tool
\* and the lines as they were just before the callback ran.
LoadCompletionKeepsEdits ==
    [][(steps' = steps + 1 /\ last'.op \in {"onload", "onerror"})
          => (ui'.currentTool = ui.currentTool /\ lines' = lines)]_vars

\* C29: whenever ui.loading is true it is eventually false again, for the
\* image load, the background removal and the export, on success and on
\* failure and in every interleaving, given that the decoder eventually
\* fires onload or onerror.
LoadingEventuallyClears == ui.loading ~> ~ui.loading

\* C29 witness: a load that failed to decode has completed with onerror and
\* loading is false with no load in flight
FailedLoadCleared ==
    /\ last.op = "onerror"
    /\ ~ui.loading
    /\ pending = {}

\* C30: removeBackground is a function of its source and target alone, each
\* output pixel depends only on the RGB of the source pixel at the same place
\* and on the target, and the alpha of the source is discarded: a source that
\* differs from src in alpha values only, or in the pixels at other places,
\* gives the same output pixel.
VariantAlphas == {0, 128, 255}
WithAlpha(buf, i, a) == [buf EXCEPT !.data[i].a = a]
WithPixel(buf, j, q) == [buf EXCEPT !.data[j] = q]
Written(buf) == 1..Min(Len(buf.data), buf.width * buf.height)
OutputFromRGBOnly ==
    ~IsNull(out) =>
        /\ Val(out) = removeBackground(src, tgt)
        /\ \A i \in 1..Len(src.data), a \in VariantAlphas :
               removeBackground(WithAlpha(src, i, a), tgt) = Val(out)
        /\ \A i \in Written(src), j \in 1..Len(src.data), q \in SourcePixels :
               j # i => removeBackground(WithPixel(src, j, q), tgt).data[i]
                            = Val(out).data[i]
        /\ \A i \in Written(src) :
               Val(out).data[i]
                   = TransformPixel(RGBA(RGB(src.data[i].r, src.data[i].g, src.data[i].b), 0),
                                    tgt)

\* C30 witness: a half-transparent source pixel has produced a fully opaque
\* output pixel, beside a pixel of another colour
AlphaDiscarded ==
    /\ ~IsNull(out)
    /\ last.outcome = "first"
    /\ \E i, j \in Written(src) :
           /\ src.data[i].a = 128
           /\ Val(out).data[i].a = 255
           /\ src.data[j] # src.data[i]

=============================================================================
